---- MODULE Spec2Model ----
(***************************************************************************)
(* Model of the Telegram webhook handler of src/src/main.py: one           *)
(* invocation of handler() per webhook delivery, no memory between         *)
(* invocations, the dialog state of each chat kept as a JSON object in an  *)
(* object store under dialogs/<chat_id>.json.                              *)
(*                                                                         *)
(* An invocation touches the store at most twice: one get_object and,      *)
(* later, one put_object.  Everything an invocation does up to and         *)
(* including its get_object is one step, everything after it is a second   *)
(* step, so that invocations for the same chat interleave exactly at the   *)
(* points where the code has no lock.                                      *)
(***************************************************************************)
EXTENDS Integers, Sequences, FiniteSets, TLC

VARIABLES
    store,      \* object store: chat id -> body of dialogs/<chat_id>.json
    agents,     \* AGENTS_JSON of the deployment: the keys of get_agents(), in order
    pc,         \* per invocation slot: where the running invocation is
    event,      \* per invocation slot: the webhook event being handled
    state,      \* per invocation slot: what get_dialog_state returned
    log,        \* per invocation slot: the calls to collaborators made so far
    last,       \* the invocation that has just returned, until the platform takes its response
    started,    \* number of invocations begun
    turns,      \* history: chat id -> advances persisted since the last persisted reset
    fresh       \* history: chat id -> a new-dialog command completed and no free-form turn began since

vars == <<store, agents, pc, event, state, log, last, started, turns, fresh>>

---------------------------------------------------------------------------
(* Bounds of the model *)

\* message_count is capped: a turn is only begun while the stored count is below it
MaxCount == 2
\* number of webhook deliveries in one behaviour
MaxStarted == 3

---------------------------------------------------------------------------
(* Values *)

\* Python's None
None == "None"

\* invocation slots: at most two deliveries are in flight at once
Inv == {1, 2}

\* chat ids of the deliveries; NoChat is a message without chat.id
Chats == {42, 43}
NoChat == 0

\* ids the completion API returns as response.id, and its output texts
ResponseIds == {"t1", "t2"}
OutputTexts == {[text |-> "answer"]}
\* what str(e) of a failed completion call says
AiErrors == {"network", "quota", "malformed response"}

\* agent ids that appear in AGENTS_JSON or in callback data
AgentIds == {"a1", "a2", "a3"}
\* the registries a deployment is configured with (DEFAULT_AGENTS is {})
Registries == {<<>>, <<"a1">>, <<"a1", "a2">>}
\* agents[agent_id]: the display names
agent_names == [a \in AgentIds |-> IF a = "a1" THEN "Helper" ELSE IF a = "a2" THEN "Coder" ELSE "Ghost"]

\* the texts handle_command compares with; BTN_* are the keyboard captions
\* of get_main_menu (non-ASCII in the source)
BTN_NEW == "BTN_NEW"
BTN_AGENTS == "BTN_AGENTS"
BTN_STATUS == "BTN_STATUS"
BTN_HELP == "BTN_HELP"
Texts == {"/start", "/new", BTN_NEW, "/agents", BTN_AGENTS, "/status", BTN_STATUS,
          "/help", BTN_HELP, "hello", ""}

\* callback data, as the sequence of its parts; <<>> is the empty string
CallbackData == {<<>>, <<"agent", ":", "a1">>, <<"agent", ":", "a2">>,
                 <<"agent", ":", "a3">>, <<"agent", ":">>, <<"menu">>}

Range(s) == {s[k] : k \in 1..Len(s)}

---------------------------------------------------------------------------
(* JSON bodies in the store *)

JNull == [json |-> "null"]
JString(s) == [json |-> "string", chars |-> s]
JNumber(n) == [json |-> "number", digits |-> n]

\* json.dumps of one value of a dialog state
ToJson(v) == IF v = None THEN JNull ELSE JString(v)
\* json.loads of one value
FromJson(j) == IF j.json = "null" THEN None ELSE IF j.json = "string" THEN j.chars ELSE j.digits

\* json.dumps(state) for a dialog state dict
json_dumps(st) ==
    [doc |-> "object",
     previous_response_id |-> ToJson(st.previous_response_id),
     message_count |-> JNumber(st.message_count),
     agent_id |-> ToJson(st.agent_id)]

\* bodies that are not a dialog state: no such key, bytes that are not JSON,
\* and JSON that is not an object (a list)
NoSuchKey == [doc |-> "NoSuchKey"]
NotJson == [doc |-> "not json"]
JsonArray == [doc |-> "array"]

\* what json.loads returns for a JSON array: a Python list, which has no .get
PyList == [py |-> "list"]

\* json.loads(body) for a body that parses
json_loads(body) ==
    IF body.doc = "object"
    THEN [previous_response_id |-> FromJson(body.previous_response_id),
          message_count |-> FromJson(body.message_count),
          agent_id |-> FromJson(body.agent_id)]
    ELSE PyList

IsDict(v) == "agent_id" \in DOMAIN v

---------------------------------------------------------------------------
(* Webhook events *)

\* the second chat, used to see that a chat's record is its own
OtherChat == 43
\* what the second chat sends
OtherTexts == {"hello"}
OtherData == {}

\* the decoded webhook bodies: a body string that is not JSON, a body with
\* neither message nor callback_query, messages and callback queries with
\* and without a chat id
Events ==
    {[kind |-> "invalid_json"], [kind |-> "empty"]}
    \cup [kind : {"message"}, chat : Chats \ {OtherChat}, text : Texts]
    \cup [kind : {"message"}, chat : {OtherChat}, text : OtherTexts]
    \cup [kind : {"message"}, chat : {NoChat}, text : {"hello"}]
    \cup [kind : {"callback_query"}, chat : Chats \ {OtherChat}, data : CallbackData]
    \cup [kind : {"callback_query"}, chat : {OtherChat}, data : OtherData]
    \cup [kind : {"callback_query"}, chat : {NoChat}, data : {<<"agent", ":", "a1">>}]

NoEvent == [kind |-> "none"]
NoState == [py |-> "unset"]

\* message.get("chat", {}).get("id")
ChatOf(ev) == IF "chat" \in DOMAIN ev THEN ev.chat ELSE NoChat
\* message.get("text", "")
TextOf(ev) == IF "text" \in DOMAIN ev THEN ev.text ELSE ""
\* callback_query.get("data", "")
DataOf(ev) == IF "data" \in DOMAIN ev THEN ev.data ELSE <<>>

\* Python truthiness of an optional string: None and "" are falsy
Falsy(v) == v = None \/ v = ""

---------------------------------------------------------------------------
(* Session store adapter *)

\* a default that takes the last key of the registry instead of the first
DefaultState_last_key(ags) ==
    [previous_response_id |-> None,
     message_count |-> 0,
     agent_id |-> IF ags /= <<>> THEN ags[Len(ags)] ELSE None]

\* the state get_dialog_state falls back to
DefaultState(ags) ==
    [previous_response_id |-> None,
     message_count |-> 0,
     agent_id |-> IF ags /= <<>> THEN ags[1] ELSE None]

\* get_dialog_state: the parsed body, or the default when get_object or
\* json.loads raises (the store is unavailable, the key is missing, the
\* bytes are not JSON)
get_dialog_state(body, available, ags) ==
    IF available /\ body.doc \notin {"NoSuchKey", "not json"}
    THEN json_loads(body)
    ELSE DefaultState(ags)

---------------------------------------------------------------------------
(* Texts, keyboards and the calls to collaborators *)

NOT_SELECTED == "not selected"
\* agents.get(agent_id, "not selected") if agent_id else "not selected"
AgentName(ags, agent_id) ==
    IF ~Falsy(agent_id) /\ agent_id \in Range(ags) THEN agent_names[agent_id] ELSE NOT_SELECTED

WelcomeText(name) == [text |-> "welcome", agent |-> name]
NewDialogText == [text |-> "dialog reset"]
ChooseAgentText == [text |-> "choose agent"]
StatusText(name, count, ctx) == [text |-> "status", agent |-> name, messages |-> count, context |-> ctx]
\* the help text ends with "context is kept when the agent is changed"
HelpText == [text |-> "help", on_agent_change |-> "context is kept"]
SelectedText(name) == [text |-> "agent selected", agent |-> name]
NoAgentText == [text |-> "agent not selected, use /agents"]
ErrorText(reason) == [text |-> "error", reason |-> reason]
\* what a list answers to .get
AttributeError == "'list' object has no attribute 'get'"

\* the callback notices
AGENT_NOT_FOUND == "agent not found"
AGENT_CHANGED == "agent changed, context reset"
AGENT_ALREADY == "agent already selected"
NO_TEXT == "no text"

get_main_menu == <<<<BTN_NEW, BTN_AGENTS>>, <<BTN_STATUS, BTN_HELP>>>>

\* get_agents_inline_keyboard: one button per agent, the current one checked
get_agents_inline_keyboard(ags, current_agent_id) ==
    [k \in 1..Len(ags) |->
        [text |-> agent_names[ags[k]],
         checked |-> (ags[k] = current_agent_id),
         callback_data |-> <<"agent", ":", ags[k]>>]]

\* the calls, as they appear in an invocation's log; ok = the call returned
GetObject(chat, body, ok) == [op |-> "get_object", chat_id |-> chat, body |-> body, ok |-> ok]
PutObject(chat, body, ok) == [op |-> "put_object", chat_id |-> chat, body |-> body, ok |-> ok]
SendMessage(chat, text, markup, ok) ==
    [op |-> "sendMessage", chat_id |-> chat, text |-> text, reply_markup |-> markup, ok |-> ok]
SendChatAction(chat, ok) == [op |-> "sendChatAction", chat_id |-> chat, ok |-> ok]
AnswerCallbackQuery(text, ok) == [op |-> "answerCallbackQuery", text |-> text, ok |-> ok]
EditMessageText(chat, text, markup, ok) ==
    [op |-> "editMessageText", chat_id |-> chat, text |-> text, reply_markup |-> markup, ok |-> ok]
ResponsesCreate(agent_id, input, previous, result) ==
    [op |-> "responses.create", prompt |-> agent_id, input |-> input,
     previous_response_id |-> previous, result |-> result]

\* save_dialog_state: put_object of json.dumps(state); when it raises the
\* error is printed and swallowed
\* a save under one key for every chat
save_dialog_state_one_key(chat, st, ok) == PutObject(42, json_dumps(st), ok)

save_dialog_state(chat, st, ok) == PutObject(chat, json_dumps(st), ok)

\* results of the completion call
AiResults ==
    [ok : {TRUE}, id : ResponseIds, output_text : OutputTexts]
    \cup [ok : {FALSE}, error : AiErrors]

---------------------------------------------------------------------------
(* Routing *)

\* handle_command: the branch a text takes, "none" when it returns None
\* a handle_command that knows the slash commands and not the keyboard labels
handle_command_branch_slash_only(command) ==
    IF command \in {"/start"} THEN "start"
    ELSE IF command \in {"/new"} THEN "new"
    ELSE IF command \in {"/agents"} THEN "agents"
    ELSE IF command \in {"/status"} THEN "status"
    ELSE IF command \in {"/help"} THEN "help"
    ELSE "none"

handle_command_branch(command) ==
    IF command \in {"/start"} THEN "start"
    ELSE IF command \in {BTN_NEW, "/new"} THEN "new"
    ELSE IF command \in {BTN_AGENTS, "/agents"} THEN "agents"
    ELSE IF command \in {"/status", BTN_STATUS} THEN "status"
    ELSE IF command \in {"/help", BTN_HELP} THEN "help"
    ELSE "none"

\* data.startswith("agent:")
StartsWithAgent(data) == Len(data) >= 2 /\ data[1] = "agent" /\ data[2] = ":"
\* data.split(":", 1)[1]
AgentOfData(data) == IF Len(data) >= 3 THEN data[3] ELSE ""

\* a callback branch that accepts every known agent id, registered or not
handle_callback_branch_any_agent(ev, ags) ==
    IF ChatOf(ev) = NoChat \/ DataOf(ev) = <<>> THEN "invalid_callback"
    ELSE IF StartsWithAgent(DataOf(ev))
         THEN IF AgentOfData(DataOf(ev)) \notin AgentIds THEN "agent_not_found"
              ELSE "agent_selected"
         ELSE "unknown_callback"

\* handle_callback_query: the branch a callback takes
handle_callback_branch(ev, ags) ==
    IF ChatOf(ev) = NoChat \/ DataOf(ev) = <<>> THEN "invalid_callback"
    ELSE IF StartsWithAgent(DataOf(ev))
         THEN IF AgentOfData(DataOf(ev)) \notin Range(ags) THEN "agent_not_found"
              ELSE "agent_selected"
         ELSE "unknown_callback"

\* handler + process_message: the branch an event takes
\* a process_message that only checks the chat id before routing the text
process_message_branch_text_unchecked(ev, ags) ==
    IF ev.kind = "invalid_json" THEN "decode_error"
    ELSE IF ev.kind = "callback_query" THEN handle_callback_branch(ev, ags)
    ELSE IF ChatOf(ev) = NoChat THEN "no_message"
    ELSE IF handle_command_branch(TextOf(ev)) /= "none" THEN handle_command_branch(TextOf(ev))
    ELSE "chat"

process_message_branch(ev, ags) ==
    IF ev.kind = "invalid_json" THEN "decode_error"
    ELSE IF ev.kind = "callback_query" THEN handle_callback_branch(ev, ags)
    ELSE IF ChatOf(ev) = NoChat \/ TextOf(ev) = "" THEN "no_message"
    ELSE IF handle_command_branch(TextOf(ev)) /= "none" THEN handle_command_branch(TextOf(ev))
    ELSE "chat"

---------------------------------------------------------------------------
(* The calls of each branch, in program order, as if none raised *)

\* the dialog state written by /start, /new and an agent switch
ResetState(agent_id) ==
    [previous_response_id |-> None, message_count |-> 0, agent_id |-> agent_id]

\* a /start that always takes the first agent of the registry
StartAgent_always_first(st, ags) ==
    IF ags /= <<>> THEN ags[1] ELSE st.agent_id

\* /start keeps the agent and takes the first of the registry when none is set
\* a /start that falls back to a fixed agent id, whatever the registry holds
StartAgent_fixed_agent(st, ags) ==
    IF Falsy(st.agent_id) THEN "a1" ELSE st.agent_id

StartAgent(st, ags) ==
    IF Falsy(st.agent_id) /\ ags /= <<>> THEN ags[1] ELSE st.agent_id

\* handle_command, "/start", after get_dialog_state
\* a /start that clears the context and keeps the message counter
handle_start_calls_keeps_count(chat, st, ags, wok, sok) ==
    << save_dialog_state(chat, [previous_response_id |-> None,
                                message_count |-> st.message_count,
                                agent_id |-> StartAgent(st, ags)], wok),
       SendMessage(chat, WelcomeText(AgentName(ags, StartAgent(st, ags))), get_main_menu, sok) >>

handle_start_calls(chat, st, ags, wok, sok) ==
    << save_dialog_state(chat, ResetState(StartAgent(st, ags)), wok),
       SendMessage(chat, WelcomeText(AgentName(ags, StartAgent(st, ags))), get_main_menu, sok) >>

\* a /new that resets the agent with the context
handle_new_calls_drops_agent(chat, st, wok, sok) ==
    << save_dialog_state(chat, ResetState(None), wok),
       SendMessage(chat, NewDialogText, get_main_menu, sok) >>

\* handle_command, "/new", after get_dialog_state
\* a new-dialog branch that saves again when the save failed
handle_new_calls_retries(chat, st, wok, sok) ==
    << save_dialog_state(chat, ResetState(st.agent_id), wok) >>
    \o (IF wok THEN << >> ELSE << save_dialog_state(chat, ResetState(st.agent_id), TRUE) >>)
    \o << SendMessage(chat, NewDialogText, get_main_menu, sok) >>

handle_new_calls(chat, st, wok, sok) ==
    << save_dialog_state(chat, ResetState(st.agent_id), wok),
       SendMessage(chat, NewDialogText, get_main_menu, sok) >>

\* handle_command, "/agents", after get_dialog_state
handle_agents_calls(chat, st, ags, sok) ==
    << SendMessage(chat, ChooseAgentText, get_agents_inline_keyboard(ags, st.agent_id), sok) >>

\* handle_command, "/status", after get_dialog_state
\* a status command that saves the state it has just read
handle_status_calls_saves(chat, st, ags, sok) ==
    << save_dialog_state(chat, st, TRUE),
       SendMessage(chat,
                   StatusText(AgentName(ags, st.agent_id), st.message_count,
                              ~Falsy(st.previous_response_id)),
                   get_main_menu, sok) >>

handle_status_calls(chat, st, ags, sok) ==
    << SendMessage(chat,
                   StatusText(AgentName(ags, st.agent_id), st.message_count,
                              ~Falsy(st.previous_response_id)),
                   get_main_menu, sok) >>

\* handle_command, "/help"
handle_help_calls(chat, sok) ==
    << SendMessage(chat, HelpText, get_main_menu, sok) >>

\* an agent switch that keeps the context, as the help text says
handle_callback_calls_keeps_context(chat, st, agent_id, ags, wok, aok, eok) ==
    (IF st.agent_id /= agent_id
     THEN << save_dialog_state(chat, [st EXCEPT !.agent_id = agent_id], wok),
             AnswerCallbackQuery(AGENT_CHANGED, aok) >>
     ELSE << AnswerCallbackQuery(AGENT_ALREADY, aok) >>)
    \o << EditMessageText(chat, SelectedText(agent_names[agent_id]),
                          get_agents_inline_keyboard(ags, agent_id), eok) >>

\* an agent selection that resets the dialog whether or not the agent changes
handle_callback_calls_always_resets(chat, st, agent_id, ags, wok, aok, eok) ==
    << save_dialog_state(chat, ResetState(agent_id), wok),
       AnswerCallbackQuery(AGENT_CHANGED, aok),
       EditMessageText(chat, SelectedText(agent_names[agent_id]),
                       get_agents_inline_keyboard(ags, agent_id), eok) >>

\* handle_callback_query for a registered agent, after get_dialog_state
handle_callback_calls(chat, st, agent_id, ags, wok, aok, eok) ==
    (IF st.agent_id /= agent_id
     THEN << save_dialog_state(chat, ResetState(agent_id), wok),
             AnswerCallbackQuery(AGENT_CHANGED, aok) >>
     ELSE << AnswerCallbackQuery(AGENT_ALREADY, aok) >>)
    \o << EditMessageText(chat, SelectedText(agent_names[agent_id]),
                          get_agents_inline_keyboard(ags, agent_id), eok) >>

\* a get_ai_response without the agent check
AgentSelected_unchecked(st) == TRUE

\* get_ai_response: "if not agent_id" returns the no-agent text
AgentSelected(st) == ~Falsy(st.agent_id)

\* an advance that stores the new response id without counting the turn
AdvancedState_not_counted(st, response_id) ==
    [previous_response_id |-> response_id,
     message_count |-> st.message_count,
     agent_id |-> st.agent_id]

\* the dialog state written after a successful completion
AdvancedState(st, response_id) ==
    [previous_response_id |-> response_id,
     message_count |-> st.message_count + 1,
     agent_id |-> st.agent_id]

\* a turn that replies before it saves the advance
get_ai_response_calls_replies_first(chat, st, input, r, wok, sok) ==
    << ResponsesCreate(st.agent_id, input, st.previous_response_id, r),
       SendMessage(chat, IF r.ok THEN r.output_text ELSE ErrorText(r.error),
                   get_main_menu, sok) >>
    \o (IF r.ok THEN << save_dialog_state(chat, AdvancedState(st, r.id), wok) >> ELSE << >>)

\* a get_ai_response that calls the completion API again when it failed
get_ai_response_calls_retries(chat, st, input, r, wok, sok) ==
    << ResponsesCreate(st.agent_id, input, st.previous_response_id, r) >>
    \o (IF r.ok THEN << save_dialog_state(chat, AdvancedState(st, r.id), wok) >>
        ELSE << ResponsesCreate(st.agent_id, input, st.previous_response_id, r) >>)
    \o << SendMessage(chat, IF r.ok THEN r.output_text ELSE ErrorText(r.error),
                      get_main_menu, sok) >>

\* get_ai_response after get_dialog_state found an agent, then the reply of
\* process_message
get_ai_response_calls(chat, st, input, r, wok, sok) ==
    << ResponsesCreate(st.agent_id, input, st.previous_response_id, r) >>
    \o (IF r.ok THEN << save_dialog_state(chat, AdvancedState(st, r.id), wok) >> ELSE << >>)
    \o << SendMessage(chat, IF r.ok THEN r.output_text ELSE ErrorText(r.error),
                      get_main_menu, sok) >>

\* a save_dialog_state without its try: a failed put_object raises too
Raises_put_object(call) ==
    /\ call.op \in {"sendMessage", "sendChatAction", "answerCallbackQuery", "editMessageText",
                    "put_object"}
    /\ ~call.ok

\* a call to the delivery client that fails raises (requests.post is not
\* wrapped); get_object, put_object and responses.create are called inside try
Raises(call) ==
    /\ call.op \in {"sendMessage", "sendChatAction", "answerCallbackQuery", "editMessageText"}
    /\ ~call.ok

Raised(cs) == \E k \in 1..Len(cs) : Raises(cs[k])

\* the calls actually made: those up to and including the first that raises
Run(cs) ==
    IF Raised(cs)
    THEN SubSeq(cs, 1, CHOOSE k \in 1..Len(cs) :
                          Raises(cs[k]) /\ \A j \in 1..(k - 1) : ~Raises(cs[j]))
    ELSE cs

\* the store after the put_objects of the calls made
\* a store that takes the writes of an invocation only when it ends normally
RECURSIVE ApplyPuts_rolled_back(_, _)
ApplyPuts_rolled_back(s, cs) ==
    IF cs = << >> \/ Raised(cs) THEN s
    ELSE ApplyPuts_rolled_back(
            IF Head(cs).op = "put_object" /\ Head(cs).ok
            THEN [s EXCEPT ![Head(cs).chat_id] = Head(cs).body]
            ELSE s,
            Tail(cs))

\* resets done with delete_dialog_state: a put_object of a record with
\* message_count 0 removes the key instead
RECURSIVE ApplyPuts_reset_deletes(_, _)
ApplyPuts_reset_deletes(s, cs) ==
    IF cs = << >> THEN s
    ELSE ApplyPuts_reset_deletes(
            IF Head(cs).op = "put_object" /\ Head(cs).ok
            THEN [s EXCEPT ![Head(cs).chat_id] =
                    IF Head(cs).body.message_count.digits = 0 THEN NoSuchKey ELSE Head(cs).body]
            ELSE s,
            Tail(cs))

\* a store whose put_object is conditional: a record is not replaced by one
\* that counts no more turns than it does
RECURSIVE ApplyPuts_conditional(_, _)
ApplyPuts_conditional(s, cs) ==
    IF cs = << >> THEN s
    ELSE ApplyPuts_conditional(
            IF /\ Head(cs).op = "put_object" /\ Head(cs).ok
               /\ ~(/\ s[Head(cs).chat_id].doc = "object"
                    /\ Head(cs).body.message_count.digits > 0
                    /\ s[Head(cs).chat_id].message_count.digits
                        >= Head(cs).body.message_count.digits)
            THEN [s EXCEPT ![Head(cs).chat_id] = Head(cs).body]
            ELSE s,
            Tail(cs))

RECURSIVE ApplyPuts(_, _)
ApplyPuts(s, cs) ==
    IF cs = << >> THEN s
    ELSE ApplyPuts(IF Head(cs).op = "put_object" /\ Head(cs).ok
                   THEN [s EXCEPT ![Head(cs).chat_id] = Head(cs).body]
                   ELSE s,
                   Tail(cs))

\* a handler that answers 200 whatever happened
StatusCode_always_200(cs) == 200

\* the history of turns after the calls of one invocation: a put_object that
\* succeeds after a completion call is an advance, any other one is a reset
TurnsAfter(t, cs) ==
    LET puts == {k \in 1..Len(cs) : cs[k].op = "put_object" /\ cs[k].ok}
        put == cs[CHOOSE k \in puts : TRUE]
    IN  IF puts = {} THEN t
        ELSE IF \E k \in 1..Len(cs) : cs[k].op = "responses.create"
        THEN [t EXCEPT ![put.chat_id] = @ + 1]
        ELSE [t EXCEPT ![put.chat_id] = 0]

\* the history of new dialogs after an invocation returns: a free-form turn
\* that began and returned in this step ends the freshness of its chat, a
\* new-dialog command that saved its reset and returned normally starts it
FreshAfter(f, began, ev, cs, result) ==
    IF began
    THEN (IF ev.kind = "message" /\ ChatOf(ev) /= NoChat /\ TextOf(ev) /= ""
             /\ handle_command_branch(TextOf(ev)) = "none"
          THEN [f EXCEPT ![ChatOf(ev)] = FALSE]
          ELSE f)
    ELSE IF /\ result = "new"
            /\ ~Raised(cs)
            /\ \E k \in 1..Len(cs) : cs[k].op = "put_object" /\ cs[k].ok
    THEN [f EXCEPT ![ChatOf(ev)] = TRUE]
    ELSE f

\* handler: 200 with the result when process_message returned, 500 when
\* anything raised
StatusCode(cs) == IF Raised(cs) THEN 500 ELSE 200
Result(cs, result) == IF Raised(cs) THEN "error" ELSE result

---------------------------------------------------------------------------
(* State machine.  Where a call is not reached, the flag that says whether it
   returns is fixed to TRUE, so that each outcome is generated once. *)

\* what a chat's key holds before the first delivery of a behaviour: nothing,
\* bytes that are not JSON, JSON that is not an object, or the record of a
\* dialog with the default agent that has had one turn
InitialBodies(ags) ==
    {NoSuchKey, NotJson, JsonArray}
    \cup (IF ags = << >> THEN {}
          ELSE {json_dumps(AdvancedState(DefaultState(ags), "t1"))})

NoInvocation ==
    [event |-> NoEvent, state |-> NoState, log |-> << >>, statusCode |-> 0, result |-> "none"]

Init ==
    /\ agents \in Registries
    /\ store \in [Chats -> InitialBodies(agents)]
    /\ store[OtherChat] = NoSuchKey
    /\ pc = [i \in Inv |-> "idle"]
    /\ event = [i \in Inv |-> NoEvent]
    /\ state = [i \in Inv |-> NoState]
    /\ log = [i \in Inv |-> << >>]
    /\ last = NoInvocation
    /\ started = 0
    /\ turns = [c \in Chats |-> IF store[c].doc = "object" THEN 1 ELSE 0]
    /\ fresh = [c \in Chats |-> FALSE]

\* a webhook delivery starts an invocation in the first free slot
Begin(i) ==
    /\ last = NoInvocation
    /\ pc[i] = "idle"
    /\ \A j \in Inv : j < i => pc[j] /= "idle"
    /\ started < MaxStarted
    /\ started' = started + 1
    /\ UNCHANGED agents

\* the invocation of slot i returns: handler's response envelope
Return(i, ev, st, calls, result) ==
    /\ last' = [event |-> ev, state |-> st, log |-> Run(calls),
                statusCode |-> StatusCode(calls), result |-> Result(calls, result)]
    /\ store' = ApplyPuts(store, Run(calls))
    /\ turns' = TurnsAfter(turns, Run(calls))
    /\ fresh' = FreshAfter(fresh, pc[i] = "idle", ev, calls, result)
    /\ pc' = [pc EXCEPT ![i] = "idle"]
    /\ event' = [event EXCEPT ![i] = NoEvent]
    /\ state' = [state EXCEPT ![i] = NoState]
    /\ log' = [log EXCEPT ![i] = << >>]

\* the invocation of slot i goes on after its get_object
Continue(i, ev, st, calls, at) ==
    /\ pc' = [pc EXCEPT ![i] = at]
    /\ event' = [event EXCEPT ![i] = ev]
    /\ state' = [state EXCEPT ![i] = st]
    /\ log' = [log EXCEPT ![i] = calls]
    /\ last' = NoInvocation
    /\ fresh' = IF at = "get_ai_response" THEN [fresh EXCEPT ![ChatOf(ev)] = FALSE] ELSE fresh
    /\ UNCHANGED <<store, turns>>

\* a handler that answers an undecodable body like an empty update
DecodeError_swallowed(i) ==
    /\ Begin(i)
    /\ \E ev \in Events :
        /\ process_message_branch(ev, agents) = "decode_error"
        /\ Return(i, ev, NoState, << >>, "No message to process")

\* handler: json.loads(event["body"]) raises
DecodeError(i) ==
    /\ Begin(i)
    /\ \E ev \in Events :
        /\ process_message_branch(ev, agents) = "decode_error"
        /\ last' = [event |-> ev, state |-> NoState, log |-> << >>,
                    statusCode |-> 500, result |-> "error"]
        /\ UNCHANGED <<store, pc, event, state, log, turns, fresh>>

\* process_message: no chat id or no text
NoMessage(i) ==
    /\ Begin(i)
    /\ \E ev \in Events :
        /\ process_message_branch(ev, agents) = "no_message"
        /\ Return(i, ev, NoState, << >>, "No message to process")

\* handle_callback_query: no chat id or no data
InvalidCallback(i) ==
    /\ Begin(i)
    /\ \E ev \in Events :
        /\ process_message_branch(ev, agents) = "invalid_callback"
        /\ Return(i, ev, NoState, << >>, "Invalid callback")

\* handle_callback_query: the agent is not in the registry
AgentNotFound(i) ==
    /\ Begin(i)
    /\ \E ev \in Events, aok \in BOOLEAN :
        /\ process_message_branch(ev, agents) = "agent_not_found"
        /\ Return(i, ev, NoState, << AnswerCallbackQuery(AGENT_NOT_FOUND, aok) >>,
                  "Agent not found")

\* handle_callback_query: data without the agent: prefix
UnknownCallback(i) ==
    /\ Begin(i)
    /\ \E ev \in Events, aok \in BOOLEAN :
        /\ process_message_branch(ev, agents) = "unknown_callback"
        /\ Return(i, ev, NoState, << AnswerCallbackQuery(NO_TEXT, aok) >>, "Unknown callback")

\* a branch that reads the dialog state: get_dialog_state, then state.get,
\* which raises on a list
Load(i, branch, at) ==
    /\ Begin(i)
    /\ \E ev \in Events, available \in BOOLEAN :
        LET chat == ChatOf(ev)
            st == get_dialog_state(store[chat], available, agents)
            read == << GetObject(chat, store[chat], available) >>
        IN  /\ process_message_branch(ev, agents) = branch
            /\ IF IsDict(st)
               THEN Continue(i, ev, st, read, at)
               ELSE /\ last' = [event |-> ev, state |-> st, log |-> read,
                                statusCode |-> 500, result |-> "error"]
                    /\ UNCHANGED <<store, pc, event, state, log, turns, fresh>>

\* the rest of a branch that has read the dialog state
Finish(i, at, calls, result) ==
    /\ last = NoInvocation
    /\ pc[i] = at
    /\ Return(i, event[i], state[i], log[i] \o calls, result)
    /\ UNCHANGED <<agents, started>>

StartLoad(i) == Load(i, "start", "start")

StartSave(i) ==
    \E wok, sok \in BOOLEAN :
        Finish(i, "start",
               handle_start_calls(ChatOf(event[i]), state[i], agents, wok, sok), "start")

NewLoad(i) == Load(i, "new", "new")

NewSave(i) ==
    \E wok, sok \in BOOLEAN :
        Finish(i, "new", handle_new_calls(ChatOf(event[i]), state[i], wok, sok), "new")

CallbackLoad(i) == Load(i, "agent_selected", "agent_selected")

CallbackSelect(i) ==
    \E wok, aok, eok \in BOOLEAN :
        /\ last = NoInvocation
        /\ pc[i] = "agent_selected"
        /\ (IF aok THEN TRUE ELSE eok)
        /\ (IF state[i].agent_id /= AgentOfData(DataOf(event[i])) THEN TRUE ELSE wok)
        /\ Finish(i, "agent_selected",
               handle_callback_calls(ChatOf(event[i]), state[i], AgentOfData(DataOf(event[i])),
                                     agents, wok, aok, eok),
               "agent_selected")

\* handle_command, "/agents": read the state and send the keyboard
AgentsCommand(i) ==
    /\ Begin(i)
    /\ \E ev \in Events, available, sok \in BOOLEAN :
        LET chat == ChatOf(ev)
            st == get_dialog_state(store[chat], available, agents)
            read == << GetObject(chat, store[chat], available) >>
        IN  /\ process_message_branch(ev, agents) = "agents"
            /\ (IF IsDict(st) THEN TRUE ELSE sok)
            /\ IF IsDict(st)
               THEN Return(i, ev, st, read \o handle_agents_calls(chat, st, agents, sok), "agents")
               ELSE /\ last' = [event |-> ev, state |-> st, log |-> read,
                                statusCode |-> 500, result |-> "error"]
                    /\ UNCHANGED <<store, pc, event, state, log, turns, fresh>>

\* handle_command, "/status": read the state and send the summary
StatusCommand(i) ==
    /\ Begin(i)
    /\ \E ev \in Events, available, sok \in BOOLEAN :
        LET chat == ChatOf(ev)
            st == get_dialog_state(store[chat], available, agents)
            read == << GetObject(chat, store[chat], available) >>
        IN  /\ process_message_branch(ev, agents) = "status"
            /\ (IF IsDict(st) THEN TRUE ELSE sok)
            /\ IF IsDict(st)
               THEN Return(i, ev, st, read \o handle_status_calls(chat, st, agents, sok), "status")
               ELSE /\ last' = [event |-> ev, state |-> st, log |-> read,
                                statusCode |-> 500, result |-> "error"]
                    /\ UNCHANGED <<store, pc, event, state, log, turns, fresh>>

\* handle_command, "/help"
HelpCommand(i) ==
    /\ Begin(i)
    /\ \E ev \in Events, sok \in BOOLEAN :
        /\ process_message_branch(ev, agents) = "help"
        /\ Return(i, ev, NoState, handle_help_calls(ChatOf(ev), sok), "help")

\* free-form text: send_typing_action, then get_ai_response up to the
\* completion call.  get_ai_response catches what state.get raises on a list
\* and returns the error text; without an agent it returns the no-agent text.
ChatLoad(i) ==
    /\ Begin(i)
    /\ \E ev \in Events, tok, available, sok \in BOOLEAN :
        LET chat == ChatOf(ev)
            st == get_dialog_state(store[chat], available, agents)
            typing == << SendChatAction(chat, tok) >>
            read == typing \o << GetObject(chat, store[chat], available) >>
        IN  /\ process_message_branch(ev, agents) = "chat"
            /\ (IF tok THEN TRUE ELSE available /\ sok)
            /\ IF ~tok
               THEN Return(i, ev, NoState, typing, "Response sent")
               ELSE IF ~IsDict(st)
               THEN Return(i, ev, st,
                           read \o << SendMessage(chat, ErrorText(AttributeError), get_main_menu, sok) >>,
                           "Response sent")
               ELSE IF ~AgentSelected(st)
               THEN Return(i, ev, st,
                           read \o << SendMessage(chat, NoAgentText, get_main_menu, sok) >>,
                           "Response sent")
               ELSE /\ st.message_count < MaxCount
                    /\ Continue(i, ev, st, read, "get_ai_response")

\* the completion call, the save after a success, and the reply
ChatComplete(i) ==
    \E r \in AiResults, wok, sok \in BOOLEAN :
        /\ (IF r.ok THEN TRUE ELSE wok)
        /\ Finish(i, "get_ai_response",
               get_ai_response_calls(ChatOf(event[i]), state[i], TextOf(event[i]), r, wok, sok),
               "Response sent")

\* the platform takes the response envelope of the invocation that returned
Respond ==
    /\ last /= NoInvocation
    /\ last' = NoInvocation
    /\ UNCHANGED <<store, agents, pc, event, state, log, started, turns, fresh>>

Next ==
    \/ Respond
    \/ \E i \in Inv :
        \/ DecodeError(i)
        \/ NoMessage(i)
        \/ InvalidCallback(i)
        \/ AgentNotFound(i)
        \/ UnknownCallback(i)
        \/ StartLoad(i)
        \/ StartSave(i)
        \/ NewLoad(i)
        \/ NewSave(i)
        \/ AgentsCommand(i)
        \/ StatusCommand(i)
        \/ HelpCommand(i)
        \/ CallbackLoad(i)
        \/ CallbackSelect(i)
        \/ ChatLoad(i)
        \/ ChatComplete(i)

Spec == Init /\ [][Next]_vars

\* the same handler with one invocation at a time: a webhook delivery is made
\* when the previous one has been answered, so the second slot is never taken
Sequential == Init /\ [][Next /\ pc'[2] = "idle"]_vars

---------------------------------------------------------------------------
(* Properties *)

\* the invocation that has just returned
Returned == last /= NoInvocation
LastChat == ChatOf(last.event)
\* the positions of the calls of one kind in a log
At(lg, op) == {k \in 1..Len(lg) : lg[k].op = op}
\* the body of a dialog record, field by field
RecordBody(previous_response_id, message_count, agent_id) ==
    [doc |-> "object",
     previous_response_id |-> IF previous_response_id = None THEN JNull
                              ELSE JString(previous_response_id),
     message_count |-> JNumber(message_count),
     agent_id |-> IF agent_id = None THEN JNull ELSE JString(agent_id)]
\* the returned invocation got a dialog state dict from get_dialog_state
LoadedDict == Returned /\ IsDict(last.state)
\* the returned invocation handled a message with this text in a chat
LastMessage(texts) ==
    /\ Returned
    /\ last.event.kind = "message"
    /\ LastChat \in Chats
    /\ last.event.text \in texts
\* the returned invocation handled a callback "agent:<id>" for a registered id
LastAgentCallback ==
    /\ Returned
    /\ last.event.kind = "callback_query"
    /\ LastChat \in Chats
    /\ StartsWithAgent(last.event.data)
    /\ AgentOfData(last.event.data) \in Range(agents)
LastAgent == AgentOfData(last.event.data)
\* the keyboard marks exactly the given agent
Marks(markup, agent_id) ==
    /\ \E k \in 1..Len(markup) : markup[k].checked
    /\ \A k \in 1..Len(markup) :
        markup[k].checked <=> markup[k].callback_data = <<"agent", ":", agent_id>>

\* C1: whenever a store write changes the persisted agent_id of a chat from
\* one value to another, the record written has previous_response_id null
\* and message_count 0.
C1_TokenNotCarriedAcrossAgentChange ==
    [][\A c \in Chats :
        (/\ store[c].doc = "object"
         /\ store'[c].doc = "object"
         /\ store'[c].agent_id /= store[c].agent_id)
        => (/\ store'[c].previous_response_id = JNull
            /\ store'[c].message_count = JNumber(0))]_vars

C3_SameAgentIdempotent ==
    (LastAgentCallback /\ LoadedDict /\ last.state.agent_id = LastAgent)
    => \E aok, eok \in BOOLEAN :
        LET ack == AnswerCallbackQuery(AGENT_ALREADY, aok)
            edit == EditMessageText(LastChat, SelectedText(agent_names[LastAgent]),
                                    last.log[Len(last.log)].reply_markup, eok)
        IN  /\ last.log[1].op = "get_object"
            /\ Tail(last.log) = IF aok THEN <<ack, edit>> ELSE <<ack>>
            /\ ack.text /= AGENT_CHANGED
            /\ aok => Marks(last.log[Len(last.log)].reply_markup, LastAgent)
            /\ At(last.log, "put_object") = {}
            /\ last.statusCode = IF aok /\ eok THEN 200 ELSE 500

C3_Witness ==
    /\ LastAgentCallback /\ LoadedDict
    /\ last.state.agent_id = LastAgent
    /\ last.state.previous_response_id /= None
    /\ last.statusCode = 200
    /\ store[LastChat] = RecordBody(last.state.previous_response_id,
                                    last.state.message_count, LastAgent)

\* C4: a callback "agent:<id>" whose id is not in the registry is answered
\* with the error notice and nothing else happens: no get_object, no
\* put_object, no edit.
C4_UnknownAgent ==
    (/\ Returned
     /\ last.event.kind = "callback_query"
     /\ LastChat \in Chats
     /\ StartsWithAgent(last.event.data)
     /\ AgentOfData(last.event.data) \notin Range(agents))
    => /\ \E aok \in BOOLEAN :
            /\ last.log = << AnswerCallbackQuery(AGENT_NOT_FOUND, aok) >>
            /\ last.statusCode = IF aok THEN 200 ELSE 500
       /\ last.state = NoState

C4_Witness ==
    /\ Returned
    /\ last.event.kind = "callback_query"
    /\ last.event.data = <<"agent", ":", "a3">>
    /\ store[LastChat].doc = "object"
    /\ last.log = << AnswerCallbackQuery(AGENT_NOT_FOUND, TRUE) >>
    /\ last.statusCode = 200

\* C5: every invocation that handles a callback acknowledges it exactly once.
C5_AcknowledgedExactlyOnce ==
    (Returned /\ last.event.kind = "callback_query")
    => Cardinality(At(last.log, "answerCallbackQuery")) = 1

\* the get_object of a log, when it has made one
ReadOf(lg) == lg[CHOOSE k \in At(lg, "get_object") : TRUE]
\* an invocation, in flight or returned, whose get_object found no record
\* under the chat's key
LoadedNoRecord(lg) ==
    /\ At(lg, "get_object") /= {}
    /\ ReadOf(lg).body = NoSuchKey

\* C6: when the store holds no record for the chat, load returns
\* {null, 0, d}, d the first key of the registry, or null when it is empty.
C6_LoadDefaults ==
    /\ \A i \in Inv :
        LoadedNoRecord(log[i])
        => state[i] = [previous_response_id |-> None, message_count |-> 0,
                       agent_id |-> IF Len(agents) = 0 THEN None ELSE agents[1]]
    /\ LoadedNoRecord(last.log)
        => last.state = [previous_response_id |-> None, message_count |-> 0,
                         agent_id |-> IF Len(agents) = 0 THEN None ELSE agents[1]]

C6_Witness ==
    /\ LoadedNoRecord(last.log)
    /\ ReadOf(last.log).ok
    /\ Len(agents) = 2
    /\ last.state.agent_id = "a1"
    /\ last.statusCode = 200

\* the returned invocation could not retrieve a dialog record: the store
\* was unavailable, the key missing, or the body not a record object
LoadFailed ==
    /\ Returned
    /\ At(last.log, "get_object") /= {}
    /\ (~ReadOf(last.log).ok \/ ReadOf(last.log).body.doc /= "object")

\* C7: on any retrieval failure load falls back to the default state and
\* the failure is not surfaced: the invocation goes on with its branch, and
\* when its own calls return it does not end in a 500 response.
C7_LoadFailureRecovered ==
    LoadFailed
    => /\ last.state = DefaultState(agents)
       /\ ~Raised(last.log) => last.statusCode = 200
       /\ \A k \in At(last.log, "sendMessage") :
            last.log[k].text /= ErrorText(AttributeError)

\* C8: the new-dialog command writes {null, 0, agent_id of the loaded
\* session} and sends the confirmation.
C8_NewDialogKeepsAgent ==
    (LastMessage({"/new", BTN_NEW}) /\ LoadedDict)
    => \E wok, sok \in BOOLEAN :
        LET put == PutObject(LastChat, RecordBody(None, 0, last.state.agent_id), wok)
            send == SendMessage(LastChat, NewDialogText, get_main_menu, sok)
        IN  /\ last.log[1].op = "get_object"
            /\ Tail(last.log) = <<put, send>>
            /\ (last.log[1].ok /\ last.log[1].body.doc = "object")
               => put.body.agent_id = last.log[1].body.agent_id
            /\ wok => store[LastChat] = put.body
            /\ last.statusCode = IF sok THEN 200 ELSE 500

C8_Witness ==
    /\ LastMessage({"/new", BTN_NEW}) /\ LoadedDict
    /\ last.state.agent_id = "a2"
    /\ last.state.previous_response_id /= None
    /\ last.state.message_count > 0
    /\ store[LastChat] = RecordBody(None, 0, "a2")
    /\ last.statusCode = 200

\* C9: the start command writes {null, 0, a} and sends the welcome, a being
\* the loaded agent_id when set, else the first key of the registry, else
\* null; with no record and registry {a1} the record becomes {null, 0, a1}.
C9_StartResets ==
    (LastMessage({"/start"}) /\ LoadedDict)
    => \E wok, sok \in BOOLEAN :
        LET a == IF last.state.agent_id \notin {None, ""} THEN last.state.agent_id
                 ELSE IF Len(agents) > 0 THEN agents[1]
                 ELSE None
            put == PutObject(LastChat, RecordBody(None, 0, a), wok)
            send == SendMessage(LastChat,
                                WelcomeText(IF a \in Range(agents) THEN agent_names[a]
                                            ELSE NOT_SELECTED),
                                get_main_menu, sok)
        IN  /\ last.log[1].op = "get_object"
            /\ Tail(last.log) = <<put, send>>
            /\ wok => store[LastChat] = put.body
            /\ (wok /\ last.log[1].body = NoSuchKey /\ agents = <<"a1">>)
               => store[LastChat] = RecordBody(None, 0, "a1")
            /\ last.statusCode = IF sok THEN 200 ELSE 500

C9_Witness ==
    /\ LastMessage({"/start"}) /\ LoadedDict
    /\ last.state.agent_id = "a2"
    /\ last.state.previous_response_id /= None
    /\ store[LastChat] = RecordBody(None, 0, "a2")
    /\ last.statusCode = 200

\* C10: a free-form turn whose loaded session has no agent_id makes no
\* completion call and no store write and replies with the no-agent text.
C10_NoAgentNoCompletion ==
    (/\ LastMessage(Texts)
     /\ handle_command_branch(last.event.text) = "none"
     /\ LoadedDict
     /\ last.state.agent_id \in {None, ""})
    => \E sok \in BOOLEAN :
        /\ last.log[1] = SendChatAction(LastChat, TRUE)
        /\ last.log[2].op = "get_object"
        /\ SubSeq(last.log, 3, Len(last.log))
            = << SendMessage(LastChat, NoAgentText, get_main_menu, sok) >>
        /\ At(last.log, "responses.create") = {}
        /\ At(last.log, "put_object") = {}
        /\ last.statusCode = IF sok THEN 200 ELSE 500

C10_Witness ==
    /\ LastMessage({"hello"}) /\ LoadedDict
    /\ last.state.agent_id = None
    /\ At(last.log, "sendMessage") /= {}
    /\ last.statusCode = 200

\* the returned invocation handled free-form text in a chat
LastChatTurn ==
    /\ LastMessage(Texts)
    /\ last.event.text /= ""
    /\ handle_command_branch(last.event.text) = "none"
\* the completion call of a log, when it has made one
CreateOf(lg) == lg[CHOOSE k \in At(lg, "responses.create") : TRUE]
\* a call to the delivery client in the log did not return
DeliveryFailed(lg) ==
    \E k \in 1..Len(lg) :
        /\ lg[k].op \in {"sendMessage", "sendChatAction", "answerCallbackQuery", "editMessageText"}
        /\ ~lg[k].ok

\* C11: a free-form turn whose completion call succeeds writes
\* {returned id, loaded message_count + 1, loaded agent_id} and replies with
\* the output text of the client.
C11_SuccessfulTurnAdvances ==
    (/\ LastChatTurn /\ LoadedDict
     /\ At(last.log, "responses.create") /= {}
     /\ CreateOf(last.log).result.ok)
    => \E wok, sok \in BOOLEAN :
        LET r == CreateOf(last.log).result
            create == ResponsesCreate(last.state.agent_id, last.event.text,
                                      last.state.previous_response_id, r)
            put == PutObject(LastChat,
                             RecordBody(r.id, last.state.message_count + 1, last.state.agent_id),
                             wok)
            send == SendMessage(LastChat, r.output_text, get_main_menu, sok)
        IN  /\ last.log[1] = SendChatAction(LastChat, TRUE)
            /\ last.log[2].op = "get_object"
            /\ SubSeq(last.log, 3, Len(last.log)) = <<create, put, send>>
            /\ wok => store[LastChat] = put.body
            /\ last.statusCode = IF sok THEN 200 ELSE 500

C11_Witness ==
    /\ LastChatTurn
    /\ last.state = [previous_response_id |-> "t1", message_count |-> 1, agent_id |-> "a1"]
    /\ At(last.log, "responses.create") /= {}
    /\ CreateOf(last.log).result = [ok |-> TRUE, id |-> "t2", output_text |-> [text |-> "answer"]]
    /\ store[LastChat] = RecordBody("t2", 2, "a1")
    /\ last.log[Len(last.log)] = SendMessage(LastChat, [text |-> "answer"], get_main_menu, TRUE)
    /\ last.statusCode = 200

C13_WriteFailureSwallowed ==
    (/\ Returned
     /\ \E k \in At(last.log, "put_object") : ~last.log[k].ok)
    => /\ Cardinality(At(last.log, "put_object")) = 1
       /\ \A k \in At(last.log, "put_object") :
            /\ k < Len(last.log)
            /\ last.log[k + 1].op \in {"sendMessage", "answerCallbackQuery"}
       /\ ~DeliveryFailed(last.log) => last.statusCode = 200
       /\ DeliveryFailed(last.log) => last.statusCode = 500

C13_Witness ==
    /\ Returned
    /\ \E k \in At(last.log, "put_object") : ~last.log[k].ok
    /\ At(last.log, "responses.create") /= {}
    /\ store[LastChat] = RecordBody("t1", 1, last.state.agent_id)
    /\ last.log[Len(last.log)].op = "sendMessage"
    /\ last.statusCode = 200

\* C14: a failure of the typing indicator is ignored: the turn goes on, the
\* user gets the reply, and the response is 200.
C14_TypingFailureIgnored ==
    (/\ LastChatTurn
     /\ \E k \in At(last.log, "sendChatAction") : ~last.log[k].ok)
    => /\ \E k \in At(last.log, "sendMessage") : last.log[k].ok
       /\ last.statusCode = 200

\* the invocations that have started and not returned
InFlight == Cardinality({i \in Inv : pc[i] /= "idle"})
\* an exception escaped process_message in the returned invocation
Escaped ==
    \/ last.event.kind = "invalid_json"
    \/ DeliveryFailed(last.log)
    \/ /\ last.state = PyList
       /\ ~LastChatTurn
\* the response envelope of the returned invocation
ResponseEnvelope ==
    /\ last.statusCode = (IF Escaped THEN 500 ELSE 200)
    /\ (last.result = "error") <=> (last.statusCode = 500)
    /\ DeliveryFailed(last.log) => ~last.log[Len(last.log)].ok

\* C15: whatever the envelope and whichever collaborator fails, every
\* invocation ends in one step that produces one response: 500 with the error
\* body when an exception escaped process_message, 200 with its result otherwise.
C15_OneResponse ==
    [][LET ended == (started' - started) + InFlight - InFlight'
       IN  /\ ended \in {0, 1}
           /\ (ended = 1) <=> (last' /= NoInvocation)
           /\ (last' /= NoInvocation) => ResponseEnvelope']_vars

C15_Witness ==
    /\ Returned
    /\ At(last.log, "put_object") /= {}
    /\ DeliveryFailed(last.log)
    /\ last.statusCode = 500
    /\ last.result = "error"

C17_EmptyMessageIsNoOp ==
    (/\ Returned
     /\ last.event.kind = "message"
     /\ (LastChat = NoChat \/ last.event.text = ""))
    => /\ last.log = << >>
       /\ last.state = NoState
       /\ last.statusCode = 200
       /\ last.result = "No message to process"

C17_Witness ==
    /\ Returned
    /\ last.event.kind = "message"
    /\ LastChat \in Chats
    /\ last.event.text = ""
    /\ last.statusCode = 200
    /\ last.log = << >>
    /\ store[LastChat].doc = "object"

\* C18: the agents-list, status and help commands leave the store as it was,
\* whatever it held before.
C18_ReadOnlyCommands ==
    [][(/\ last' /= NoInvocation
        /\ last'.event.kind = "message"
        /\ last'.event.chat \in Chats
        /\ handle_command_branch(last'.event.text) \in {"agents", "status", "help"})
       => /\ store' = store
          /\ \A k \in 1..Len(last'.log) : last'.log[k].op /= "put_object"]_vars

C18_Witness ==
    /\ LastMessage({"/status", BTN_STATUS})
    /\ store[LastChat] = NotJson
    /\ last.state = DefaultState(agents)
    /\ At(last.log, "sendMessage") /= {}
    /\ last.statusCode = 200

\* C19: in every execution, overlapping invocations included, the persisted
\* message_count of a chat is the number of completion turns persisted for it
\* since its last persisted reset.
C19_CountIsTurnsSinceReset ==
    \A c \in Chats :
        store[c].doc = "object" => store[c].message_count = JNumber(turns[c])

\* C20: what the help text promises holds: a switch to another agent keeps the
\* dialog context, the continuation token stays in the record for the next turn.
C20_HelpPromiseKept ==
    (/\ HelpText.on_agent_change = "context is kept"
     /\ LastAgentCallback /\ LoadedDict
     /\ last.state.agent_id /= LastAgent
     /\ last.state.previous_response_id /= None
     /\ \E k \in At(last.log, "put_object") : last.log[k].ok)
    => store[LastChat].previous_response_id = JString(last.state.previous_response_id)

\* C21: no lock is taken, the last writer wins: when a free-form turn that
\* read the store saves its advance after an overlapping turn has already
\* advanced the record from the same count, the record becomes the one this
\* turn wrote (its turn id, the loaded count + 1) and the other advance is lost.
C21_LastWriterWins ==
    [][LET c == ChatOf(last'.event)
           r == CreateOf(last'.log).result
       IN  (/\ last' /= NoInvocation
            /\ LastChatTurn' /\ LoadedDict'
            /\ last'.log[2].ok
            /\ \E k \in At(last'.log, "put_object") : last'.log[k].ok
            /\ store[c].doc = "object"
            /\ store[c] /= last'.log[2].body
            /\ store[c].message_count = JNumber(last'.state.message_count + 1))
           => /\ store'[c] = RecordBody(r.id, last'.state.message_count + 1,
                                        last'.state.agent_id)
              /\ store'[c].message_count = store[c].message_count
              /\ turns'[c] = turns[c] + 1]_vars

C21_Witness ==
    /\ LastChatTurn
    /\ At(last.log, "responses.create") /= {}
    /\ last.log[2] = GetObject(LastChat, NoSuchKey, TRUE)
    /\ \E k \in At(last.log, "put_object") : last.log[k].ok
    /\ CreateOf(last.log).result.ok
    /\ CreateOf(last.log).result.id = "t2"
    /\ store[LastChat] = RecordBody("t2", 1, "a1")
    /\ turns[LastChat] = 2
    /\ last.statusCode = 200

\* C22: once a new-dialog command has completed for a chat, the next free-form
\* turn of that chat goes to the completion call with no previous response id,
\* also when an earlier turn of the chat was in flight during the command.
C22_NextTurnAfterNewDialog ==
    [][\A i \in Inv :
        (/\ pc[i] = "idle"
         /\ pc'[i] = "get_ai_response"
         /\ fresh[ChatOf(event'[i])])
        => state'[i].previous_response_id = None]_vars

\* C23: nothing is retried: whatever fails, an invocation calls the completion
\* API at most once and writes the store at most once.
C23_NothingRetried ==
    /\ Returned =>
        /\ Cardinality(At(last.log, "responses.create")) <= 1
        /\ Cardinality(At(last.log, "put_object")) <= 1
        /\ Cardinality(At(last.log, "get_object")) <= 1
    /\ \A i \in Inv :
        /\ At(log[i], "responses.create") = {}
        /\ At(log[i], "put_object") = {}

C23_Witness ==
    /\ LastChatTurn
    /\ Cardinality(At(last.log, "responses.create")) = 1
    /\ Cardinality(At(last.log, "put_object")) = 1
    /\ \E k \in At(last.log, "get_object") : ~last.log[k].ok
    /\ \E k \in At(last.log, "put_object") : ~last.log[k].ok
    /\ \E k \in At(last.log, "sendMessage") : ~last.log[k].ok
    /\ last.statusCode = 500

\* C24: in a free-form turn whose completion call succeeds, the typing
\* indicator precedes the completion call, the store write precedes the reply,
\* and no reply precedes the return of the completion call.
C24_TurnOrder ==
    (/\ LastChatTurn
     /\ At(last.log, "responses.create") /= {}
     /\ CreateOf(last.log).result.ok)
    => /\ At(last.log, "sendChatAction") /= {}
       /\ At(last.log, "put_object") /= {}
       /\ At(last.log, "sendMessage") /= {}
       /\ \A t \in At(last.log, "sendChatAction"), c \in At(last.log, "responses.create") : t < c
       /\ \A c \in At(last.log, "responses.create"), p \in At(last.log, "put_object") : c < p
       /\ \A p \in At(last.log, "put_object"), m \in At(last.log, "sendMessage") : p < m
       /\ \A k \in At(last.log, "sendMessage") :
            last.log[k].text = CreateOf(last.log).result.output_text

C24_Witness ==
    /\ LastChatTurn
    /\ Len(last.log) = 5
    /\ last.log[1].op = "sendChatAction"
    /\ last.log[2] = GetObject(LastChat, NotJson, TRUE)
    /\ last.log[3].op = "responses.create" /\ last.log[3].result.ok
    /\ last.log[4].op = "put_object" /\ last.log[4].ok
    /\ last.log[5].op = "sendMessage" /\ last.log[5].ok
    /\ store[LastChat] = last.log[4].body

\* C25: the agents-list command is handled by the agents branch only when the
\* registry is not empty; with an empty registry the text goes on to the
\* free-form branch.
C25_AgentsOnlyWithRegistry ==
    (/\ LastMessage({"/agents", BTN_AGENTS})
     /\ agents = << >>)
    => /\ At(last.log, "sendChatAction") /= {}
       /\ \A k \in At(last.log, "sendMessage") : last.log[k].text /= ChooseAgentText

\* the command each command literal stands for
CommandOf(text) ==
    IF text = "/start" THEN "start"
    ELSE IF text \in {"/new", BTN_NEW} THEN "new"
    ELSE IF text \in {"/agents", BTN_AGENTS} THEN "agents"
    ELSE IF text \in {"/status", BTN_STATUS} THEN "status"
    ELSE IF text \in {"/help", BTN_HELP} THEN "help"
    ELSE "none"
\* the reply texts of a command's branch
RepliesOf(command) ==
    IF command = "start" THEN {"welcome"}
    ELSE IF command = "new" THEN {"dialog reset"}
    ELSE IF command = "agents" THEN {"choose agent"}
    ELSE IF command = "status" THEN {"status"}
    ELSE IF command = "help" THEN {"help"}
    ELSE {"answer", "error", "agent not selected, use /agents"}
CallbackOps == {"get_object", "put_object", "answerCallbackQuery", "editMessageText"}
CommandOps == {"get_object", "put_object", "sendMessage"}

\* C26: dispatch is exclusive: a callback_query is handled by the callback
\* branch alone, a message whose text is a command literal by that command's
\* branch alone and without a completion call, and only other non-empty text
\* reaches the free-form branch.
C26_ExclusiveDispatch ==
    Returned =>
        /\ last.event.kind = "callback_query"
            => /\ \A k \in 1..Len(last.log) : last.log[k].op \in CallbackOps
               /\ last.result \in {"Invalid callback", "Agent not found", "agent_selected",
                                   "Unknown callback", "error"}
        /\ (last.event.kind = "message" /\ LastChat \in Chats
            /\ CommandOf(last.event.text) /= "none")
            => /\ \A k \in 1..Len(last.log) : last.log[k].op \in CommandOps
               /\ \A k \in At(last.log, "sendMessage") :
                    last.log[k].text.text \in RepliesOf(CommandOf(last.event.text))
               /\ last.result \in {CommandOf(last.event.text), "error"}
        /\ (\E k \in 1..Len(last.log) : last.log[k].op \in {"responses.create", "sendChatAction"})
            => /\ last.event.kind = "message"
               /\ LastChat \in Chats
               /\ last.event.text /= ""
               /\ CommandOf(last.event.text) = "none"
               /\ last.result \in {"Response sent", "error"}

C26_Witness ==
    /\ LastMessage({BTN_NEW})
    /\ LoadedDict
    /\ last.state.previous_response_id = "t1"
    /\ At(last.log, "put_object") /= {}
    /\ At(last.log, "responses.create") = {}
    /\ last.result = "new"
    /\ last.statusCode = 200

\* C27: no handler removes a record: a key that exists keeps existing, and a
\* record stays a record; resets overwrite it.
C27_NoRecordRemoved ==
    [][\A c \in Chats :
        /\ store[c] /= NoSuchKey => store'[c] /= NoSuchKey
        /\ store[c].doc = "object" => store'[c].doc = "object"]_vars

C27_Witness ==
    /\ LastMessage({"/start"})
    /\ Len(last.log) = 3
    /\ last.log[1].op = "get_object" /\ last.log[1].ok
    /\ last.log[1].body = RecordBody("t1", 1, "a1")
    /\ last.log[2].op = "put_object" /\ last.log[2].ok
    /\ store[LastChat] = RecordBody(None, 0, "a1")

\* the store calls of a log all use the key of this chat
OwnKey(lg, chat) ==
    \A k \in 1..Len(lg) : lg[k].op \in {"get_object", "put_object"} => lg[k].chat_id = chat

\* C28: an invocation for a chat reads and writes the record of that chat
\* only: in every step the records of all other chats stay as they are.
C28_OwnRecordOnly ==
    [][/\ \A c \in Chats :
            store'[c] /= store[c] => (last' /= NoInvocation /\ ChatOf(last'.event) = c)
       /\ last' /= NoInvocation => OwnKey(last'.log, ChatOf(last'.event))
       /\ \A i \in Inv : OwnKey(log'[i], ChatOf(event'[i]))]_vars

C28_Witness ==
    /\ LastChatTurn
    /\ LastChat = OtherChat
    /\ \E k \in At(last.log, "put_object") : last.log[k].ok
    /\ store[OtherChat] = RecordBody("t2", 1, "a1")
    /\ store[42] = RecordBody("t1", 2, "a1")

\* previous_response_id is null exactly when message_count is 0
TokenMatchesCount(body) ==
    (body.previous_response_id = JNull) <=> (body.message_count = JNumber(0))

\* C29: every record persisted has a null previous_response_id exactly when
\* its message_count is 0, in every interleaving: a reset writes null with 0,
\* an advance a response id with a count of at least 1.
C29_TokenNullIffCountZero ==
    /\ \A c \in Chats : store[c].doc = "object" => TokenMatchesCount(store[c])
    /\ Returned => \A k \in At(last.log, "put_object") :
        /\ TokenMatchesCount(last.log[k].body)
        /\ At(last.log, "responses.create") /= {}
            => last.log[k].body.message_count.digits >= 1
        /\ At(last.log, "responses.create") = {}
            => last.log[k].body.message_count = JNumber(0)

C29_Witness ==
    /\ LastAgentCallback /\ LoadedDict
    /\ last.state.previous_response_id = "t2"
    /\ last.state.message_count = 2
    /\ \E k \in At(last.log, "put_object") : last.log[k].ok
    /\ store[LastChat] = RecordBody(None, 0, LastAgent)
    /\ turns[LastChat] = 0

\* C30: with the registry fixed, every persisted agent_id is null or a key of
\* the registry, and the completion API is only called with an agent of the
\* registry.
C30_AgentInRegistry ==
    /\ \A c \in Chats :
        store[c].doc = "object"
            => store[c].agent_id \in {JNull} \cup {JString(a) : a \in Range(agents)}
    /\ Returned =>
        /\ \A k \in At(last.log, "put_object") :
            last.log[k].body.agent_id \in {JNull} \cup {JString(a) : a \in Range(agents)}
        /\ \A k \in At(last.log, "responses.create") : last.log[k].prompt \in Range(agents)
    /\ \A i \in Inv : pc[i] = "get_ai_response" => state[i].agent_id \in Range(agents)

C30_Witness ==
    /\ LastChatTurn
    /\ agents = <<"a1", "a2">>
    /\ \E k \in At(last.log, "responses.create") : last.log[k].prompt = "a2"
    /\ \E k \in At(last.log, "put_object") : last.log[k].ok
    /\ store[LastChat].agent_id = JString("a2")

\* C31: the agent_id of a record is changed only by a callback that selects a
\* registered agent or by /start giving an agent to a record that has none:
\* new-dialog, free-form turns, status, agents and help leave it as it is,
\* also when their read of the store fails.
C31_AgentChangedOnlyBySelection ==
    [][\A c \in Chats :
        (/\ store[c].doc = "object"
         /\ store'[c].doc = "object"
         /\ store'[c].agent_id /= store[c].agent_id)
        => /\ last' /= NoInvocation
           /\ ChatOf(last'.event) = c
           /\ IF last'.event.kind = "callback_query"
              THEN /\ StartsWithAgent(last'.event.data)
                   /\ AgentOfData(last'.event.data) \in Range(agents)
                   /\ store'[c].agent_id = JString(AgentOfData(last'.event.data))
              ELSE /\ last'.event.text = "/start"
                   /\ store[c].agent_id = JNull]_vars

\* C32: once a callback selecting a registered agent has re-rendered the
\* keyboard, the agent marked there is the agent_id of the stored record of the
\* chat, also when the save failed or another invocation overlapped.
C32_KeyboardMatchesRecord ==
    (/\ LastAgentCallback
     /\ last.statusCode = 200
     /\ store[LastChat].doc = "object")
    => /\ At(last.log, "editMessageText") /= {}
       /\ \A k \in At(last.log, "editMessageText") :
            \E a \in Range(agents) :
                /\ store[LastChat].agent_id = JString(a)
                /\ Marks(last.log[k].reply_markup, a)

\* C33: the result of a delivery call decides nothing: when the reply fails
\* after a completion that was saved, the record stays advanced and the
\* response is 500; when the acknowledgement or the edit fails after a switch
\* that was saved, the record stays switched and the response is 500.
C33_NoRollbackOnDeliveryFailure ==
    (/\ Returned /\ LoadedDict
     /\ \E k \in At(last.log, "put_object") : last.log[k].ok
     /\ ~last.log[Len(last.log)].ok
     /\ last.log[Len(last.log)].op \in {"sendMessage", "answerCallbackQuery", "editMessageText"})
    => /\ last.statusCode = 500
       /\ \A k \in At(last.log, "put_object") : store[LastChat] = last.log[k].body
       /\ LastChatTurn
            => /\ CreateOf(last.log).result.ok
               /\ store[LastChat] = RecordBody(CreateOf(last.log).result.id,
                                               last.state.message_count + 1,
                                               last.state.agent_id)
       /\ LastAgentCallback => store[LastChat] = RecordBody(None, 0, LastAgent)

C33_Witness ==
    /\ LastChatTurn /\ LoadedDict
    /\ last.state.previous_response_id = "t1"
    /\ Len(last.log) = 5
    /\ last.log[4].op = "put_object" /\ last.log[4].ok
    /\ last.log[5].op = "sendMessage" /\ ~last.log[5].ok
    /\ store[LastChat] = RecordBody("t2", 2, "a1")
    /\ last.statusCode = 500

---------------------------------------------------------------------------
(* The handler generated by the template of create-bot.py, rendered with
   every feature and a non-empty agents setting *)

\* json.dumps(state) in save_state: the template's field names
template_json_dumps(st) ==
    [doc |-> "object",
     prev_id |-> ToJson(st.prev_id),
     count |-> JNumber(st.count),
     agent_id |-> ToJson(st.agent_id)]

\* json.loads in get_state
template_json_loads(body) ==
    IF body.doc = "object"
    THEN [prev_id |-> FromJson(body.prev_id),
          count |-> FromJson(body.count),
          agent_id |-> FromJson(body.agent_id)]
    ELSE PyList

\* get_state: the parsed body, or the default when anything raises
template_get_state(body, available, ags) ==
    IF available /\ body.doc \notin {"NoSuchKey", "not json"}
    THEN template_json_loads(body)
    ELSE [prev_id |-> None, count |-> 0, agent_id |-> IF ags /= <<>> THEN ags[1] ELSE None]

template_save_state(chat, st, ok) == PutObject(chat, template_json_dumps(st), ok)

\* get_agents().get(agent_id, "?")
template_agent_name(ags, agent_id) ==
    IF agent_id \in Range(ags) THEN agent_names[agent_id] ELSE "?"

template_main_menu == <<<<BTN_NEW, BTN_AGENTS>>, <<BTN_STATUS, BTN_HELP>>>>

template_agents_keyboard(ags, current) ==
    [k \in 1..Len(ags) |->
        [text |-> agent_names[ags[k]],
         checked |-> (ags[k] = current),
         callback_data |-> <<"agent", ":", ags[k]>>]]

\* the outcome of a run of the template's process: the calls it goes through
\* and whether an exception other than a failed call escapes it
TemplateOutcome(calls, error) == [calls |-> calls, error |-> error]

\* a /start that takes the first agent of the registry whatever was selected
template_start_agent_first(st, ags) == ags[1]

\* handle_command, "/start": state.get("agent_id") or list(get_agents().keys())[0]
template_start_agent(st, ags) == IF Falsy(st.agent_id) THEN ags[1] ELSE st.agent_id

\* handle_command: the calls of a command after get_state, for a state dict
template_handle_command(chat, cmd, st, ags, wok, sok) ==
    IF cmd = "/start"
    THEN << template_save_state(chat, [prev_id |-> None, count |-> 0,
                                       agent_id |-> template_start_agent(st, ags)], wok),
            SendMessage(chat, [text |-> "welcome",
                               agent |-> template_agent_name(ags, template_start_agent(st, ags))],
                        template_main_menu, sok) >>
    ELSE IF cmd \in {BTN_NEW, "/new"}
    THEN << template_save_state(chat, [prev_id |-> None, count |-> 0,
                                       agent_id |-> st.agent_id], wok),
            SendMessage(chat, [text |-> "dialog reset"], template_main_menu, sok) >>
    ELSE IF cmd \in {BTN_AGENTS, "/agents"}
    THEN << SendMessage(chat, [text |-> "choose agent"],
                        template_agents_keyboard(ags, st.agent_id), sok) >>
    ELSE << SendMessage(chat, [text |-> "status",
                               agent |-> template_agent_name(ags, st.agent_id),
                               messages |-> st.count,
                               context |-> ~Falsy(st.prev_id)],
                        template_main_menu, sok) >>

\* get_ai_response and the reply of process, after send_typing returned
template_get_ai_response(chat, message, st, r, wok, sok) ==
    IF ~IsDict(st)
    THEN << SendMessage(chat, ErrorText(AttributeError), template_main_menu, sok) >>
    ELSE IF Falsy(st.agent_id)
    THEN << SendMessage(chat, [text |-> "agent not selected, /agents"], template_main_menu, sok) >>
    ELSE IF r.ok
    THEN << ResponsesCreate(st.agent_id, message, st.prev_id, r),
            template_save_state(chat, [prev_id |-> r.id, count |-> st.count + 1,
                                       agent_id |-> st.agent_id], wok),
            SendMessage(chat, r.output_text, template_main_menu, sok) >>
    ELSE << ResponsesCreate(st.agent_id, message, st.prev_id, r),
            SendMessage(chat, ErrorText(r.error), template_main_menu, sok) >>

\* handle_callback
template_handle_callback(chat, data, body, available, ags, wok, aok, eok) ==
    LET agent_id == AgentOfData(data)
        st == template_get_state(body, available, ags)
        read == << GetObject(chat, body, available) >>
    IN  IF ~StartsWithAgent(data)
        THEN TemplateOutcome(<< AnswerCallbackQuery(NO_TEXT, aok) >>, FALSE)
        ELSE IF agent_id \notin Range(ags)
        THEN TemplateOutcome(<< AnswerCallbackQuery("not found", aok) >>, FALSE)
        ELSE IF ~IsDict(st)
        THEN TemplateOutcome(read, TRUE)
        ELSE TemplateOutcome(
                read
                \o (IF st.agent_id /= agent_id
                    THEN << template_save_state(chat, [prev_id |-> None, count |-> 0,
                                                       agent_id |-> agent_id], wok),
                            AnswerCallbackQuery("changed", aok) >>
                    ELSE << AnswerCallbackQuery("already selected", aok) >>)
                \o << EditMessageText(chat, [text |-> "agent", agent |-> agent_names[agent_id]],
                                      template_agents_keyboard(ags, agent_id), eok) >>,
                FALSE)

\* process, for a decoded update
template_process(ev, ags, body, available, r, tok, wok, sok, aok, eok) ==
    LET chat == ChatOf(ev)
        text == TextOf(ev)
        st == template_get_state(body, available, ags)
        read == << GetObject(chat, body, available) >>
    IN  IF ev.kind = "callback_query"
        THEN template_handle_callback(chat, DataOf(ev), body, available, ags, wok, aok, eok)
        ELSE IF chat = NoChat \/ text = ""
        THEN TemplateOutcome(<< >>, FALSE)
        ELSE IF text \in {"/start", BTN_NEW, "/new", BTN_AGENTS, "/agents", BTN_STATUS, "/status"}
        THEN (IF ~IsDict(st) THEN TemplateOutcome(read, TRUE)
              ELSE IF text = "/start" /\ Falsy(st.agent_id) /\ ags = << >>
              THEN TemplateOutcome(read, TRUE)
              ELSE TemplateOutcome(read \o template_handle_command(chat, text, st, ags, wok, sok),
                                   FALSE))
        ELSE IF text \in {BTN_HELP, "/help"}
        THEN TemplateOutcome(<< SendMessage(chat, [text |-> "help"], template_main_menu, sok) >>,
                             FALSE)
        ELSE TemplateOutcome(
                << SendChatAction(chat, tok) >> \o read
                \o template_get_ai_response(chat, text, st, r, wok, sok),
                FALSE)

\* handler: the calls made and the status code of the response
template_handler(ev, ags, body, available, r, tok, wok, sok, aok, eok) ==
    IF ev.kind = "invalid_json"
    THEN [log |-> << >>, statusCode |-> 500]
    ELSE LET out == template_process(ev, ags, body, available, r, tok, wok, sok, aok, eok)
         IN  [log |-> Run(out.calls),
              statusCode |-> IF out.error \/ Raised(out.calls) THEN 500 ELSE 200]

---------------------------------------------------------------------------
(* The template's handler against the reference handler *)

\* a stored body under the renaming previous_response_id/prev_id,
\* message_count/count
Rename(body) ==
    IF body.doc = "object"
    THEN [doc |-> "object",
          prev_id |-> body.previous_response_id,
          count |-> body.message_count,
          agent_id |-> body.agent_id]
    ELSE body

\* a call of the template and a call of the reference are the same call:
\* same kind, same outcome, same key and renamed body for a store call, same
\* arguments for the completion call
Corresponds(t, c) ==
    /\ t.op = c.op
    /\ IF c.op = "responses.create" THEN t = c
       ELSE /\ t.ok = c.ok
            /\ c.op \in {"get_object", "put_object"}
                => (t.chat_id = c.chat_id /\ t.body = Rename(c.body))
            /\ c.op \in {"sendMessage", "sendChatAction", "editMessageText"}
                => t.chat_id = c.chat_id

\* whether the call of this kind in the log returned; d when there is none
OkIn(lg, op, d) == IF At(lg, op) = {} THEN d ELSE lg[CHOOSE k \in At(lg, op) : TRUE].ok

\* the template's handler on the event of the returned invocation, with the
\* renamed record and the collaborator outcomes the reference handler met; a
\* call the reference handler did not make returns when d, fails otherwise
TemplateOn(d) ==
    LET lg == last.log
        gets == At(lg, "get_object")
        body == IF gets = {} THEN store[LastChat] ELSE lg[CHOOSE k \in gets : TRUE].body
        r == IF At(lg, "responses.create") /= {} THEN CreateOf(lg).result
             ELSE IF d THEN [ok |-> TRUE, id |-> "t1", output_text |-> [text |-> "answer"]]
             ELSE [ok |-> FALSE, error |-> "network"]
    IN  template_handler(last.event, agents, Rename(body), OkIn(lg, "get_object", d), r,
                         OkIn(lg, "sendChatAction", d), OkIn(lg, "put_object", d),
                         OkIn(lg, "sendMessage", d), OkIn(lg, "answerCallbackQuery", d),
                         OkIn(lg, "editMessageText", d))

\* the three event shapes: command text, free text, agent callback
ThreeShapes ==
    /\ Returned
    /\ LastChat \in Chats
    /\ IF last.event.kind = "callback_query"
       THEN StartsWithAgent(last.event.data)
       ELSE last.event.kind = "message" /\ last.event.text /= ""

\* C34: with a non-empty registry, for every command text, free text and agent
\* callback and every prior record, the handler generated from the template
\* makes the same calls as the reference handler: the same kinds in the same
\* order, the same record read and written under the renaming prev_id/count,
\* the same completion call, and the same status code.
C34_TemplateMatchesReference ==
    (ThreeShapes /\ agents /= << >>)
    => \A d \in BOOLEAN :
        LET t == TemplateOn(d)
        IN  /\ Len(t.log) = Len(last.log)
            /\ \A k \in 1..Len(last.log) : Corresponds(t.log[k], last.log[k])
            /\ t.statusCode = last.statusCode

C34_Witness ==
    /\ LastAgentCallback /\ LoadedDict
    /\ agents = <<"a1", "a2">>
    /\ last.state.previous_response_id = "t1"
    /\ Len(last.log) = 4
    /\ last.log[2].op = "put_object" /\ last.log[2].ok
    /\ store[LastChat] = RecordBody(None, 0, "a2")
    /\ TemplateOn(TRUE).log[2].body
        = [doc |-> "object", prev_id |-> JNull, count |-> JNumber(0), agent_id |-> JString("a2")]

====
